---- MODULE Spec2Model ----
(***************************************************************************)
(* Authentication / session-token lifecycle of the e-commerce backend:     *)
(* credential store (User collection), token issuer (token.service.js),    *)
(* token ledger (Token collection), auth orchestrator (auth.service.js),   *)
(* the HTTP controllers that wrap it and the authorization gate.           *)
(*                                                                         *)
(* Time is the unix clock in seconds.  A JWT string is modelled by its     *)
(* payload [sub, iat, exp, type]: jwt.sign is HS256 over the payload with  *)
(* one fixed secret, so equal payloads give equal strings and different    *)
(* payloads different strings.                                             *)
(***************************************************************************)
EXTENDS Integers, FiniteSets, Sequences, TLC

\* ------------------------------------------------------------------ bounds
MaxUsers == 2
MaxDocs == 4
MaxTicks == 2
MaxCalls == 2

\* ------------------------------------------------- configuration constants
accessExpirationMinutes == 30
refreshExpirationDays == 30
resetPasswordExpirationMinutes == 10
verifyEmailExpirationMinutes == 60

\* moment().add(n, 'minutes' | 'days'), in seconds
AccessLife == accessExpirationMinutes * 60
RefreshLife == refreshExpirationDays * 86400
ResetLife == resetPasswordExpirationMinutes * 60
VerifyLife == verifyEmailExpirationMinutes * 60

tokenTypes ==
  [ACCESS |-> "access", REFRESH |-> "refresh",
   RESET_PASSWORD |-> "resetPassword", VERIFY_EMAIL |-> "verifyEmail"]

\* ------------------------------------------------------------------ inputs
RawEmails == {"a@x.com", "A@x.com", "b@x.com"}
Plain == {"abc12345", "xyz67890"}

\* The clock advances by one second, by an access-token lifetime or by a
\* refresh-token lifetime.
TickSteps == {1, AccessLife, RefreshLife}

\* Number of clock steps taken to reach time t (the three step sizes are a
\* mixed radix: fewer than AccessLife one-second steps, and so on).
Elapsed(t) == (t \div RefreshLife) + ((t % RefreshLife) \div AccessLife) + (t % AccessLife)

\* ------------------------------------------------------- credential store
\* The schema lower-cases email on write and on query casting.
NormalizeEmail(e) == IF e = "A@x.com" THEN "a@x.com" ELSE e

\* The pre-save hook replaces the plaintext by an irreversible hash.
Hash(p) == <<"bcrypt", p>>

NoTime == -1
NoUser == 0

VARIABLES
  now,          \* unix clock, seconds
  users,        \* User collection: set of user documents
  nextUserId,   \* next fresh user _id
  tokens,       \* Token collection (the ledger): set of token documents
  nextTokenId,  \* next fresh token _id
  calls,        \* requests in flight between two awaits, by slot
  issued,       \* token strings handed to clients (responses, delivered mail)
  rotated,      \* refresh token strings a refreshAuth call has succeeded with
  stale,        \* token strings ended by a password change or reset, or consumed
  res,          \* the response to the last completed request
  scheduled,    \* processes whose node-cron has the jobs scheduled
  runs,         \* <<process, job>>: job starts at the current schedule tick
  product,      \* a Product document: quantity and soldCount
  stockCalls,   \* updateStock calls between their read and their save, by slot
  tally,        \* quantities added to stock, and sold by calls that succeeded
  orders        \* Order collection: set of order documents

\* the accounts, the ledger and the requests on them
auth == <<now, users, nextUserId, tokens, nextTokenId, calls, issued, rotated,
          stale, res>>

\* the catalogue and the orders
shop == <<product, stockCalls, tally, orders>>

\* the state outside the accounts and the ledger
rest == <<scheduled, runs, product, stockCalls, tally, orders>>

vars == <<now, users, nextUserId, tokens, nextTokenId, calls, issued, rotated,
          stale, res, scheduled, runs, product, stockCalls, tally, orders>>

\* user.comparePassword(candidate)
comparePassword(user, candidate) == user.password = Hash(candidate)

\* user.changedPasswordAfter(JWTTimestamp)
changedPasswordAfter(user, iat) ==
  user.passwordChangedAt # NoTime /\ user.passwordChangedAt > iat

\* User.isEmailTaken(email)
isEmailTaken(email) == \E u \in users : u.email = NormalizeEmail(email)

\* User.findOne({ email })
findByEmail(email) == {u \in users : u.email = NormalizeEmail(email)}

\* User.findById(id)
findById(id) == {u \in users : u.id = id}

\* User.create(userBody): schema defaults and the pre-save hash
NewUser(id, email, password) ==
  [id |-> id, email |-> NormalizeEmail(email), password |-> Hash(password),
   role |-> "user", isActive |-> TRUE, isEmailVerified |-> FALSE,
   passwordChangedAt |-> NoTime, lastLogin |-> NoTime]

\* user.password = newPassword; user.save(): the pre-save hook hashes the
\* password and bumps passwordChangedAt.
SetPassword(user, newPassword) ==
  [user EXCEPT !.password = Hash(newPassword), !.passwordChangedAt = now]

\* users with document u replaced by v
Replace(u, v) == (users \ {u}) \cup {v}

\* ------------------------------------------------------------ token issuer
\* generateToken(userId, expires, type): payload {sub, iat: moment().unix(),
\* exp: expires.unix(), type}, signed.
generateToken(userId, expires, type) ==
  [sub |-> userId, iat |-> now, exp |-> expires, type |-> type]

\* A jwt.verify that ignores expiration.
jwtVerify_ignoreExpiration(token) == token.exp = token.exp

\* jwt.verify(token, secret) for a token this server signed: throws
\* TokenExpiredError once the clock has reached exp.
jwtVerify(token) == now < token.exp

\* saveToken(token, userId, expires, type, blacklisted = false) as the
\* document Token.create stores under _id id
TokenDoc(id, token, userId, expires, type) ==
  [id |-> id, token |-> token, user |-> userId, type |-> type,
   expires |-> expires, blacklisted |-> FALSE, createdAt |-> now]

\* Token.findOne({token, type, user: payload.sub, blacklisted: false}) of
\* verifyToken: the matching documents (findOne returns one of them)
verifyTokenDocs(token, type) ==
  {d \in tokens : d.token = token /\ d.type = type /\ d.user = token.sub
                  /\ d.blacklisted = FALSE}

\* verifyToken(token, type) returns a document (does not throw)
verifyToken(token, type) == jwtVerify(token) /\ verifyTokenDocs(token, type) # {}

\* generateAuthTokens(user): the pair returned to the caller
AccessOf(userId) == generateToken(userId, now + AccessLife, tokenTypes.ACCESS)
RefreshOf(userId) == generateToken(userId, now + RefreshLife, tokenTypes.REFRESH)

\* generateAuthTokens(user): the ledger after saveToken of the refresh token
generateAuthTokens(userId, ledger, id) ==
  ledger \cup {TokenDoc(id, RefreshOf(userId), userId, now + RefreshLife, tokenTypes.REFRESH)}

\* generateResetPasswordToken / generateVerifyEmailToken: token and ledger
SingleUse(userId, life, type) == generateToken(userId, now + life, type)
saveSingleUse(userId, life, type, ledger, id) ==
  ledger \cup {TokenDoc(id, SingleUse(userId, life, type), userId, now + life, type)}

\* Token.deleteMany({ user, type })
deleteMany(ledger, userId, type) ==
  {d \in ledger : ~(d.user = userId /\ d.type = type)}

\* --------------------------------------------------------------- responses
NoToken == [sub |-> NoUser, iat |-> NoTime, exp |-> NoTime, type |-> "none"]

Blank ==
  [op |-> "none", status |-> 0, message |-> "", user |-> NoUser,
   replay |-> FALSE, dup |-> FALSE, old |-> FALSE]

\* The response record of a request: the given fields, defaults for the rest.
Respond(fields) == fields @@ Blank

IdleCall ==
  [pc |-> "idle", token |-> NoToken, doc |-> 0, user |-> NoUser,
   replay |-> FALSE, old |-> FALSE]

Slots == 1 .. MaxCalls

\* An updateStock slot with no call in it.
IdleStock == [pc |-> "idle", quantity |-> 0, soldCount |-> 0, q |-> 0]

Init ==
  /\ now = 0
  /\ users = {}
  /\ nextUserId = 1
  /\ tokens = {}
  /\ nextTokenId = 1
  /\ calls = [s \in Slots |-> IdleCall]
  /\ issued = {}
  /\ rotated = {}
  /\ stale = {}
  /\ res = Blank
  /\ scheduled = {}
  /\ runs = {}
  /\ product = [quantity |-> 0, soldCount |-> 0]
  /\ stockCalls = [s \in Slots |-> IdleStock]
  /\ tally = [added |-> 0, sold |-> 0]
  /\ orders = {}

\* The clock advances by d seconds.
Tick(d) ==
  /\ UNCHANGED rest
  /\ /\ Elapsed(now) < MaxTicks
     /\ now' = now + d
     /\ UNCHANGED <<users, nextUserId, tokens, nextTokenId, calls, issued, rotated,
                    stale, res>>

\* ---------------------------------------------------------- error handling
\* NODE_ENV
Envs == {"production", "development", "test"}

\* An error value as the middleware reads it.  Absent properties: statusCode
\* and code 0, message and stack "".
\* new ApiError(statusCode, message, isOperational = true, stack = '')
ApiError(statusCode, message, isOperational, stack) ==
  [name |-> "ApiError", statusCode |-> statusCode, message |-> message,
   isOperational |-> isOperational, code |-> 0, hasErrors |-> FALSE,
   stack |-> IF stack # "" THEN stack ELSE "at ApiError"]

\* err instanceof ApiError, err instanceof mongoose.Error
isApiError(err) == err.name = "ApiError"
isMongooseError(err) == err.name \in {"ValidationError", "CastError"}

\* An errorConverter that keeps converted errors operational.
errorConverter_operational(err) ==
  IF isApiError(err)
  THEN err
  ELSE ApiError(IF err.statusCode # 0 THEN err.statusCode
                ELSE IF isMongooseError(err) THEN 400 ELSE 500,
                IF err.message # "" THEN err.message ELSE "Something went wrong",
                TRUE, err.stack)

\* errorConverter(err, req, res, next): the error handed to next()
errorConverter(err) ==
  IF isApiError(err)
  THEN err
  ELSE ApiError(IF err.statusCode # 0 THEN err.statusCode
                ELSE IF isMongooseError(err) THEN 400 ELSE 500,
                IF err.message # "" THEN err.message ELSE "Something went wrong",
                FALSE, err.stack)

\* handleMongooseError(error)
handleMongooseError(error) ==
  IF error.code = 11000
  THEN ApiError(409, "email already exists", TRUE, "")
  ELSE IF error.name = "ValidationError"
  THEN ApiError(400, "validation messages", TRUE, "")
  ELSE IF error.name = "CastError"
  THEN ApiError(400, "Invalid path: value", TRUE, "")
  ELSE error

\* errorHandler(err, req, res, next): the response sent (status, message,
\* stack, errors) and the line logged (level, logged, loggedStack)
errorHandler(env, err) ==
  LET special == isMongooseError(err) \/ err.code = 11000
      handledError == handleMongooseError(err)
      statusCode0 == IF special THEN handledError.statusCode ELSE err.statusCode
      message0 == IF special THEN handledError.message ELSE err.message
      statusCode1 == IF statusCode0 = 0 THEN 500 ELSE statusCode0
      message1 == IF message0 = "" THEN "Internal server error" ELSE message0
      hide == env = "production" /\ ~err.isOperational
      statusCode == IF hide THEN 500 ELSE statusCode1
      message == IF hide THEN "Internal server error" ELSE message1
  IN [status |-> statusCode, message |-> message,
      stack |-> IF env = "development" THEN err.stack ELSE "",
      errors |-> err.hasErrors,
      level |-> IF statusCode >= 500 THEN "error" ELSE "warn",
      logged |-> message,
      loggedStack |-> IF statusCode >= 500 THEN err.stack ELSE ""]

\* app.use(error.errorConverter); app.use(error.errorHandler)
handleError(env, err) == errorHandler(env, errorConverter(err))

\* The MongoServerError User.create rejects with when the unique index on
\* email already holds the value.
DuplicateKey ==
  [name |-> "MongoServerError", statusCode |-> 0,
   message |-> "E11000 duplicate key error", isOperational |-> FALSE,
   code |-> 11000, hasErrors |-> FALSE, stack |-> "at User.create"]

\* Errors that reach the middleware: thrown by a handler, by a driver or by a
\* library; only an ApiError carries isOperational.
Errors ==
  {err \in [name : {"ApiError", "Error", "ValidationError", "CastError",
                    "MongoServerError"},
            statusCode : {0, 400, 503},
            message : {"", "connect ECONNREFUSED"},
            isOperational : BOOLEAN,
            code : {0, 11000},
            hasErrors : BOOLEAN,
            stack : {"", "Error: connect ECONNREFUSED at handler"}] :
     /\ err.name # "ApiError" => ~err.isOperational
     /\ err.name = "ApiError" => (err.statusCode # 0 /\ err.code = 0 /\ ~err.hasErrors)
     /\ err.code = 11000 => err.name = "MongoServerError"
     /\ err.hasErrors => err.name = "ValidationError"}

\* A request whose handler fails with err, on a server running with NODE_ENV
\* env: next(err) through errorConverter and errorHandler.  The response
\* record also keeps what was logged, the environment and the error's name.
fail(env, err) ==
  /\ UNCHANGED rest
  /\ /\ LET reply == handleError(env, err) IN
        res' = Respond([op |-> "error", status |-> reply.status,
                        message |-> reply.message, stack |-> reply.stack,
                        errors |-> reply.errors, level |-> reply.level,
                        logged |-> reply.logged, loggedStack |-> reply.loggedStack,
                        env |-> env, name |-> err.name])
     /\ UNCHANGED <<now, users, nextUserId, tokens, nextTokenId, calls, issued,
                    rotated, stale>>

\* ---------------------------------------------------------- registration
\* POST /auth/register: authService.register(body), then
\* tokenService.generateAuthTokens(user); 201 with the pair.  A failure of the
\* verification mail is caught and logged.
register(email, password, mailOk) ==
  /\ UNCHANGED rest
  /\ IF isEmailTaken(email)
     THEN /\ res' = Respond([op |-> "register", status |-> 409,
                             message |-> "Email already taken"])
          /\ UNCHANGED <<now, users, nextUserId, tokens, nextTokenId, calls, issued,
                         rotated, stale>>
     ELSE /\ nextUserId <= MaxUsers
          /\ nextTokenId + 1 <= MaxDocs
          /\ LET user == NewUser(nextUserId, email, password)
                 verifyEmailToken == SingleUse(user.id, VerifyLife, tokenTypes.VERIFY_EMAIL)
                 ledger1 == saveSingleUse(user.id, VerifyLife, tokenTypes.VERIFY_EMAIL,
                                          tokens, nextTokenId)
             IN /\ users' = users \cup {user}
                /\ nextUserId' = nextUserId + 1
                /\ tokens' = generateAuthTokens(user.id, ledger1, nextTokenId + 1)
                /\ nextTokenId' = nextTokenId + 2
                /\ issued' = issued \cup {AccessOf(user.id), RefreshOf(user.id)}
                                    \cup (IF mailOk THEN {verifyEmailToken} ELSE {})
                /\ res' = Respond([op |-> "register", status |-> 201,
                                   message |-> "Registration successful. Please verify your email.",
                                   user |-> user.id])
          /\ UNCHANGED <<now, calls, rotated, stale>>

\* The same request with its awaits apart, so that other requests run in
\* between.  First await of authService.register: User.isEmailTaken.
register_check(s, email, password, mailOk) ==
  /\ UNCHANGED rest
  /\ /\ calls[s].pc = "idle" /\ \A r \in 1 .. MaxCalls : r < s => calls[r].pc # "idle"
     /\ IF isEmailTaken(email)
        THEN /\ res' = Respond([op |-> "register", status |-> 409,
                                message |-> "Email already taken"])
             /\ UNCHANGED calls
        ELSE /\ calls' = [calls EXCEPT ![s] =
                            [pc |-> "create", email |-> email, password |-> password,
                             mailOk |-> mailOk]]
             /\ UNCHANGED res
     /\ UNCHANGED <<now, users, nextUserId, tokens, nextTokenId, issued, rotated,
                    stale>>

\* User.create(userBody) and what follows it.  The unique index on email
\* rejects a second document with the same email; that error leaves through
\* catchAsync and the error middleware of a server running with NODE_ENV env.
register_create(s, env) ==
  /\ UNCHANGED rest
  /\ /\ calls[s].pc = "create"
     /\ IF isEmailTaken(calls[s].email)
        THEN /\ LET reply == handleError(env, DuplicateKey) IN
                res' = Respond([op |-> "register", status |-> reply.status,
                                message |-> reply.message])
             /\ UNCHANGED <<users, nextUserId, tokens, nextTokenId, issued>>
        ELSE /\ nextUserId <= MaxUsers
             /\ nextTokenId + 1 <= MaxDocs
             /\ LET user == NewUser(nextUserId, calls[s].email, calls[s].password)
                    verifyEmailToken == SingleUse(user.id, VerifyLife, tokenTypes.VERIFY_EMAIL)
                    ledger1 == saveSingleUse(user.id, VerifyLife, tokenTypes.VERIFY_EMAIL,
                                             tokens, nextTokenId)
                IN /\ users' = users \cup {user}
                   /\ nextUserId' = nextUserId + 1
                   /\ tokens' = generateAuthTokens(user.id, ledger1, nextTokenId + 1)
                   /\ nextTokenId' = nextTokenId + 2
                   /\ issued' = issued \cup {AccessOf(user.id), RefreshOf(user.id)}
                                       \cup (IF calls[s].mailOk THEN {verifyEmailToken} ELSE {})
                   /\ res' = Respond([op |-> "register", status |-> 201,
                                      message |-> "Registration successful. Please verify your email.",
                                      user |-> user.id])
     /\ calls' = [calls EXCEPT ![s] = IdleCall]
     /\ UNCHANGED <<now, rotated, stale>>

\* ------------------------------------------------------------------ login
\* A login that also demands a verified email address.
loginResult_verifiedOnly(email, password) ==
  LET found == {u \in findByEmail(email) : comparePassword(u, password)} IN
  IF found = {} \/ \E u \in found : ~u.isEmailVerified
  THEN [status |-> 401, message |-> "Incorrect email or password", user |-> NoUser]
  ELSE LET user == CHOOSE u \in found : TRUE IN
       IF ~user.isActive
       THEN [status |-> 401, message |-> "Your account has been deactivated",
             user |-> NoUser]
       ELSE [status |-> 200, message |-> "Login successful", user |-> user.id]

\* A login that answers an unknown email differently from a wrong password.
loginResult_revealing(email, password) ==
  LET found == findByEmail(email) IN
  IF found = {}
  THEN [status |-> 404, message |-> "User not found", user |-> NoUser]
  ELSE IF \A u \in found : ~comparePassword(u, password)
  THEN [status |-> 401, message |-> "Incorrect email or password", user |-> NoUser]
  ELSE LET user == CHOOSE u \in found : TRUE IN
       IF ~user.isActive
       THEN [status |-> 401, message |-> "Your account has been deactivated",
             user |-> NoUser]
       ELSE [status |-> 200, message |-> "Login successful", user |-> user.id]

\* authService.login(email, password): what it throws or returns
loginResult(email, password) ==
  LET found == findByEmail(email) IN
  IF found = {} \/ \A u \in found : ~comparePassword(u, password)
  THEN [status |-> 401, message |-> "Incorrect email or password", user |-> NoUser]
  ELSE LET user == CHOOSE u \in found : TRUE IN
       IF ~user.isActive
       THEN [status |-> 401, message |-> "Your account has been deactivated",
             user |-> NoUser]
       ELSE [status |-> 200, message |-> "Login successful", user |-> user.id]

\* A login that deactivates the account on a wrong password (a lockout).
login_lockout(email, password) ==
  /\ UNCHANGED rest
  /\ LET found == findByEmail(email)
         right == {u \in found : comparePassword(u, password)} IN
     IF right = {}
     THEN /\ users' = (users \ found) \cup {[u EXCEPT !.isActive = FALSE] : u \in found}
          /\ res' = Respond([op |-> "login", status |-> 401,
                             message |-> "Incorrect email or password"])
          /\ UNCHANGED <<now, nextUserId, tokens, nextTokenId, calls, issued,
                         rotated, stale>>
     ELSE \E user \in right :
          IF ~user.isActive
          THEN /\ res' = Respond([op |-> "login", status |-> 401,
                                  message |-> "Your account has been deactivated"])
               /\ UNCHANGED <<now, users, nextUserId, tokens, nextTokenId, calls,
                              issued, rotated, stale>>
          ELSE /\ nextTokenId <= MaxDocs
               /\ users' = Replace(user, [user EXCEPT !.lastLogin = now])
               /\ tokens' = generateAuthTokens(user.id, tokens, nextTokenId)
               /\ nextTokenId' = nextTokenId + 1
               /\ issued' = issued \cup {AccessOf(user.id), RefreshOf(user.id)}
               /\ res' = Respond([op |-> "login", status |-> 200,
                                  message |-> "Login successful", user |-> user.id])
               /\ UNCHANGED <<now, nextUserId, calls, rotated, stale>>

\* A login that stamps lastLogin as soon as the password matches, before it
\* looks at isActive.
login_stampFirst(email, password) ==
  /\ UNCHANGED rest
  /\ LET found == {u \in findByEmail(email) : comparePassword(u, password)} IN
     IF found = {}
     THEN /\ res' = Respond([op |-> "login", status |-> 401,
                             message |-> "Incorrect email or password"])
          /\ UNCHANGED <<now, users, nextUserId, tokens, nextTokenId, calls, issued,
                         rotated, stale>>
     ELSE \E user \in found :
          /\ users' = Replace(user, [user EXCEPT !.lastLogin = now])
          /\ IF ~user.isActive
             THEN /\ res' = Respond([op |-> "login", status |-> 401,
                                     message |-> "Your account has been deactivated"])
                  /\ UNCHANGED <<tokens, nextTokenId, issued>>
             ELSE /\ nextTokenId <= MaxDocs
                  /\ tokens' = generateAuthTokens(user.id, tokens, nextTokenId)
                  /\ nextTokenId' = nextTokenId + 1
                  /\ issued' = issued \cup {AccessOf(user.id), RefreshOf(user.id)}
                  /\ res' = Respond([op |-> "login", status |-> 200,
                                     message |-> "Login successful", user |-> user.id])
          /\ UNCHANGED <<now, nextUserId, calls, rotated, stale>>

\* POST /auth/login: authService.login(email, password), which updates
\* lastLogin, then tokenService.generateAuthTokens(user).
login(email, password) ==
  /\ UNCHANGED rest
  /\ LET result == loginResult(email, password) IN
     IF result.status # 200
     THEN /\ res' = Respond([op |-> "login", status |-> result.status,
                             message |-> result.message])
          /\ UNCHANGED <<now, users, nextUserId, tokens, nextTokenId, calls, issued,
                         rotated, stale>>
     ELSE \E user \in findById(result.user) :
          /\ nextTokenId <= MaxDocs
          /\ users' = Replace(user, [user EXCEPT !.lastLogin = now])
          /\ tokens' = generateAuthTokens(user.id, tokens, nextTokenId)
          /\ nextTokenId' = nextTokenId + 1
          /\ issued' = issued \cup {AccessOf(user.id), RefreshOf(user.id)}
          /\ res' = Respond([op |-> "login", status |-> 200,
                             message |-> result.message, user |-> user.id])
          /\ UNCHANGED <<now, nextUserId, calls, rotated, stale>>

\* ----------------------------------------------------------------- logout
\* A logout that answers 200 when it finds no record.
logout_idempotent(refreshToken) ==
  /\ UNCHANGED rest
  /\ LET docs == {d \in tokens : d.token = refreshToken /\ d.type = tokenTypes.REFRESH
                                 /\ d.blacklisted = FALSE} IN
     /\ tokens' = IF docs = {} THEN tokens ELSE tokens \ {CHOOSE d \in docs : TRUE}
     /\ res' = Respond([op |-> "logout", status |-> 200,
                        message |-> "Logout successful"])
     /\ UNCHANGED <<now, users, nextUserId, nextTokenId, calls, issued, rotated,
                    stale>>

\* POST /auth/logout with a refresh token: authService.logout(refreshToken).
logout(refreshToken) ==
  /\ UNCHANGED rest
  /\ LET docs == {d \in tokens : d.token = refreshToken /\ d.type = tokenTypes.REFRESH
                                 /\ d.blacklisted = FALSE} IN
     IF docs = {}
     THEN /\ res' = Respond([op |-> "logout", status |-> 404,
                             message |-> "Token not found"])
          /\ UNCHANGED <<now, users, nextUserId, tokens, nextTokenId, calls, issued,
                         rotated, stale>>
     ELSE \E refreshTokenDoc \in docs :
          /\ tokens' = tokens \ {refreshTokenDoc}
          /\ res' = Respond([op |-> "logout", status |-> 200,
                             message |-> "Logout successful"])
          /\ UNCHANGED <<now, users, nextUserId, nextTokenId, calls, issued, rotated,
                         stale>>

\* ------------------------------------------------------------ refreshAuth
\* POST /auth/refresh-tokens.  authService.refreshAuth awaits between its reads,
\* its delete and its issue; each is a step of the call in slot s, and other
\* requests run in between.
FreeSlot(s) == calls[s].pc = "idle" /\ \A r \in Slots : r < s => calls[r].pc # "idle"

RefreshFail(token) ==
  Respond([op |-> "refreshAuth", status |-> 401, message |-> "Please authenticate",
           replay |-> token \in rotated, dup |-> token \in rotated,
           old |-> token \in stale])

\* tokenService.verifyToken(refreshToken, REFRESH) (jwt.verify, Token.findOne)
\* and User.findById(refreshTokenDoc.user).  The two reads are one step: the
\* call goes on only when both find their document, and a write that falls
\* between them has the effect it has falling before or after both.
refreshAuth_verify(s, refreshToken) ==
  /\ UNCHANGED rest
  /\ /\ FreeSlot(s)
     /\ IF ~verifyToken(refreshToken, tokenTypes.REFRESH)
           \/ findById(refreshToken.sub) = {}
        THEN /\ res' = RefreshFail(refreshToken)
             /\ UNCHANGED calls
        ELSE /\ \E refreshTokenDoc \in verifyTokenDocs(refreshToken, tokenTypes.REFRESH) :
                  calls' = [calls EXCEPT ![s] =
                             [pc |-> "delete", token |-> refreshToken,
                              doc |-> refreshTokenDoc.id, user |-> refreshTokenDoc.user,
                              replay |-> refreshToken \in rotated,
                              old |-> refreshToken \in stale]]
             /\ UNCHANGED res
     /\ UNCHANGED <<now, users, nextUserId, tokens, nextTokenId, issued, rotated,
                    stale>>

\* POST /auth/refresh-tokens as the route runs it: validate(refreshTokens)
\* demands the body field refreshToken, then the controller takes
\* req.body.refreshToken || req.cookies.refreshToken and calls refreshAuth.
\* NoToken stands for an absent body field or cookie.
refreshTokens(s, body, cookie) ==
  /\ UNCHANGED rest
  /\ IF body = NoToken
     THEN /\ res' = Respond([op |-> "refreshTokens", status |-> 400,
                             message |-> "\"refreshToken\" is required"])
          /\ UNCHANGED <<now, users, nextUserId, tokens, nextTokenId, calls, issued,
                         rotated, stale>>
     ELSE refreshAuth_verify(s, IF body # NoToken THEN body ELSE cookie)

\* refreshTokenDoc.deleteOne(): deletes by _id, nothing when already gone
refreshAuth_delete(s) ==
  /\ UNCHANGED rest
  /\ /\ calls[s].pc = "delete"
     /\ tokens' = {d \in tokens : d.id # calls[s].doc}
     /\ calls' = [calls EXCEPT ![s].pc = "generate"]
     /\ UNCHANGED <<now, users, nextUserId, nextTokenId, issued, rotated, stale, res>>

\* tokenService.generateAuthTokens(user) and the 200 response
refreshAuth_generate(s) ==
  /\ UNCHANGED rest
  /\ /\ calls[s].pc = "generate"
     /\ nextTokenId <= MaxDocs
     /\ LET userId == calls[s].user IN
        /\ tokens' = generateAuthTokens(userId, tokens, nextTokenId)
        /\ nextTokenId' = nextTokenId + 1
        /\ issued' = issued \cup {AccessOf(userId), RefreshOf(userId)}
        /\ rotated' = rotated \cup {calls[s].token}
        /\ res' = Respond([op |-> "refreshAuth", status |-> 200, user |-> userId,
                           replay |-> calls[s].replay,
                           dup |-> calls[s].token \in rotated,
                           old |-> calls[s].old])
     /\ calls' = [calls EXCEPT ![s] = IdleCall]
     /\ UNCHANGED <<now, users, nextUserId, stale>>

\* tokenService.generateAuthTokens(user) when Token.create rejects (the store
\* refuses the write): the catch of refreshAuth answers 401.
refreshAuth_createFails(s) ==
  /\ calls[s].pc = "generate"
  /\ res' = RefreshFail(calls[s].token)
  /\ calls' = [calls EXCEPT ![s] = IdleCall]
  /\ UNCHANGED <<now, users, nextUserId, tokens, nextTokenId, issued, rotated,
                 stale, rest>>

\* ---------------------------------------------------- authorization gate
\* A gate that does not look at isActive.
auth_verifyToken_anyActivity(token) ==
  IF ~jwtVerify(token)
  THEN [status |-> 401, message |-> "Token has expired.", user |-> NoUser]
  ELSE IF findById(token.sub) = {}
  THEN [status |-> 401, user |-> NoUser,
        message |-> "The user belonging to this token no longer exists."]
  ELSE LET user == CHOOSE u \in findById(token.sub) : TRUE IN
       IF changedPasswordAfter(user, token.iat)
       THEN [status |-> 401, user |-> NoUser,
             message |-> "User recently changed password. Please log in again."]
       ELSE [status |-> 200, user |-> user.id, message |-> ""]

\* A gate that does not compare passwordChangedAt with the token's iat.
auth_verifyToken_anyIat(token) ==
  IF ~jwtVerify(token)
  THEN [status |-> 401, message |-> "Token has expired.", user |-> NoUser]
  ELSE IF findById(token.sub) = {}
  THEN [status |-> 401, user |-> NoUser,
        message |-> "The user belonging to this token no longer exists."]
  ELSE LET user == CHOOSE u \in findById(token.sub) : TRUE IN
       IF ~user.isActive
       THEN [status |-> 401, user |-> NoUser,
             message |-> "Your account has been deactivated."]
       ELSE [status |-> 200, user |-> user.id, message |-> ""]

\* The verifyToken middleware: what it passes to next()
auth_verifyToken(token) ==
  IF ~jwtVerify(token)
  THEN [status |-> 401, message |-> "Token has expired.", user |-> NoUser]
  ELSE IF findById(token.sub) = {}
  THEN [status |-> 401, user |-> NoUser,
        message |-> "The user belonging to this token no longer exists."]
  ELSE LET user == CHOOSE u \in findById(token.sub) : TRUE IN
       IF changedPasswordAfter(user, token.iat)
       THEN [status |-> 401, user |-> NoUser,
             message |-> "User recently changed password. Please log in again."]
       ELSE IF ~user.isActive
       THEN [status |-> 401, user |-> NoUser,
             message |-> "Your account has been deactivated."]
       ELSE [status |-> 200, user |-> user.id, message |-> ""]

\* GET /auth/me: the gate, then the getMe controller
getMe(token) ==
  /\ UNCHANGED rest
  /\ /\ LET gate == auth_verifyToken(token) IN
        res' = Respond([op |-> "getMe", status |-> gate.status, message |-> gate.message, user |-> gate.user])
     /\ UNCHANGED <<now, users, nextUserId, tokens, nextTokenId, calls, issued,
                    rotated, stale>>

\* config.jwt.secret, and a key that is not the server's
JwtSecret == "JWT_SECRET"

Secrets == {JwtSecret, "forged"}

\* No Authorization header, or no accessToken cookie.
Absent == [token |-> NoToken, secret |-> ""]

\* What a request can carry in its Authorization header or in its accessToken
\* cookie: nothing, or a token a client holds, signed with either key.
Carried == {Absent} \cup [token : issued, secret : Secrets]

\* A verifyToken that reads the payload without checking the signature
\* (jwt.decode).
auth_verifyToken_request_decode(req) ==
  LET token == IF req.authorization # Absent THEN req.authorization
               ELSE req.accessToken
  IN  IF token = Absent
      THEN [status |-> 401, user |-> NoUser,
            message |-> "Access denied. No token provided."]
      ELSE auth_verifyToken(token.token)

\* The verifyToken middleware on a request: the Bearer token of the header,
\* else the accessToken cookie; jwt.verify(token, config.jwt.secret), whose
\* JsonWebTokenError becomes 'Invalid token.'; then the checks on the user.
auth_verifyToken_request(req) ==
  LET token == IF req.authorization # Absent THEN req.authorization
               ELSE req.accessToken
  IN  IF token = Absent
      THEN [status |-> 401, user |-> NoUser,
            message |-> "Access denied. No token provided."]
      ELSE IF token.secret # JwtSecret
      THEN [status |-> 401, user |-> NoUser, message |-> "Invalid token."]
      ELSE auth_verifyToken(token.token)

\* GET /auth/me on a request: the gate, then the getMe controller, which
\* answers with req.user.
getMe_request(req) ==
  /\ UNCHANGED rest
  /\ LET gate == auth_verifyToken_request(req) IN
     res' = Respond([op |-> "getMe", status |-> gate.status,
                     message |-> gate.message, user |-> gate.user,
                     success |-> gate.status = 200])
  /\ UNCHANGED <<now, users, nextUserId, tokens, nextTokenId, calls, issued,
                 rotated, stale>>

\* Refresh token strings clients hold for user userId
HeldRefresh(userId) ==
  {t \in issued : t.type = tokenTypes.REFRESH /\ t.sub = userId}

\* POST /auth/change-password: the gate, then authService.changePassword
changePassword(token, currentPassword, newPassword) ==
  /\ UNCHANGED rest
  /\ LET gate == auth_verifyToken(token) IN
     IF gate.status # 200
     THEN /\ res' = Respond([op |-> "changePassword", status |-> gate.status,
                             message |-> gate.message])
          /\ UNCHANGED <<now, users, nextUserId, tokens, nextTokenId, calls, issued,
                         rotated, stale>>
     ELSE \E user \in findById(gate.user) :
          IF ~comparePassword(user, currentPassword)
          THEN /\ res' = Respond([op |-> "changePassword", status |-> 400,
                                  message |-> "Current password is incorrect", user |-> user.id])
               /\ UNCHANGED <<now, users, nextUserId, tokens, nextTokenId, calls,
                              issued, rotated, stale>>
          ELSE /\ users' = Replace(user, SetPassword(user, newPassword))
               /\ tokens' = deleteMany(tokens, user.id, tokenTypes.REFRESH)
               /\ stale' = stale \cup HeldRefresh(user.id)
               /\ res' = Respond([op |-> "changePassword", status |-> 200,
                                  message |-> "Password changed successfully", user |-> user.id])
               /\ UNCHANGED <<now, nextUserId, nextTokenId, calls, issued, rotated>>

\* Password-reset token strings mailed to user userId
HeldReset(userId) ==
  {t \in issued : t.type = tokenTypes.RESET_PASSWORD /\ t.sub = userId}

\* ------------------------------------------------- password reset, verify
\* POST /auth/forgot-password
forgotPassword(email, mailOk) ==
  /\ UNCHANGED rest
  /\ IF findByEmail(email) = {}
     THEN /\ res' = Respond([op |-> "forgotPassword", status |-> 200,
                             message |-> "If an account exists with this email, a password reset link has been sent."])
          /\ UNCHANGED <<now, users, nextUserId, tokens, nextTokenId, calls, issued,
                         rotated, stale>>
     ELSE \E user \in findByEmail(email) :
          /\ nextTokenId <= MaxDocs
          /\ tokens' = saveSingleUse(user.id, ResetLife, tokenTypes.RESET_PASSWORD,
                                     tokens, nextTokenId)
          /\ nextTokenId' = nextTokenId + 1
          /\ IF mailOk
             THEN /\ issued' = issued \cup
                                 {SingleUse(user.id, ResetLife, tokenTypes.RESET_PASSWORD)}
                  /\ res' = Respond([op |-> "forgotPassword", status |-> 200, user |-> user.id,
                                     message |-> "If an account exists with this email, a password reset link has been sent."])
             ELSE /\ issued' = issued
                  /\ res' = Respond([op |-> "forgotPassword", status |-> 500, user |-> user.id,
                                     message |-> "sendMail failed"])
          /\ UNCHANGED <<now, users, nextUserId, calls, rotated, stale>>

\* POST /auth/reset-password
resetPassword(resetPasswordToken, newPassword) ==
  /\ UNCHANGED rest
  /\ IF ~verifyToken(resetPasswordToken, tokenTypes.RESET_PASSWORD)
        \/ findById(resetPasswordToken.sub) = {}
     THEN /\ res' = Respond([op |-> "resetPassword", status |-> 401,
                             message |-> "Password reset failed"])
          /\ UNCHANGED <<now, users, nextUserId, tokens, nextTokenId, calls, issued,
                         rotated, stale>>
     ELSE \E user \in findById(resetPasswordToken.sub) :
          /\ users' = Replace(user, SetPassword(user, newPassword))
          /\ tokens' = deleteMany(deleteMany(tokens, user.id, tokenTypes.RESET_PASSWORD),
                                  user.id, tokenTypes.REFRESH)
          /\ stale' = stale \cup HeldRefresh(user.id) \cup HeldReset(user.id)
          /\ res' = Respond([op |-> "resetPassword", status |-> 200,
                             message |-> "Password reset successful. You can now log in with your new password.", user |-> user.id])
          /\ UNCHANGED <<now, nextUserId, nextTokenId, calls, issued, rotated>>

\* POST /auth/verify-email; a failure of the welcome mail is caught and logged
verifyEmail(verifyEmailToken, mailOk) ==
  /\ UNCHANGED rest
  /\ IF ~verifyToken(verifyEmailToken, tokenTypes.VERIFY_EMAIL)
        \/ findById(verifyEmailToken.sub) = {}
     THEN /\ res' = Respond([op |-> "verifyEmail", status |-> 401,
                             message |-> "Email verification failed"])
          /\ UNCHANGED <<now, users, nextUserId, tokens, nextTokenId, calls, issued,
                         rotated, stale>>
     ELSE \E user \in findById(verifyEmailToken.sub) :
          /\ tokens' = deleteMany(tokens, user.id, tokenTypes.VERIFY_EMAIL)
          /\ users' = Replace(user, [user EXCEPT !.isEmailVerified = TRUE])
          /\ stale' = stale \cup {verifyEmailToken}
          /\ res' = Respond([op |-> "verifyEmail", status |-> 200,
                             message |-> "Email verified successfully", user |-> user.id])
          /\ UNCHANGED <<now, nextUserId, nextTokenId, calls, issued, rotated>>

\* POST /auth/send-verification-email: the gate, then the controller, which
\* issues a verify-email token for req.user and awaits the mail.
sendVerificationEmail(token, mailOk) ==
  /\ UNCHANGED rest
  /\ LET gate == auth_verifyToken(token) IN
     IF gate.status # 200
     THEN /\ res' = Respond([op |-> "sendVerificationEmail", status |-> gate.status,
                             message |-> gate.message])
          /\ UNCHANGED <<now, users, nextUserId, tokens, nextTokenId, calls, issued,
                         rotated, stale>>
     ELSE /\ nextTokenId <= MaxDocs
          /\ tokens' = saveSingleUse(gate.user, VerifyLife, tokenTypes.VERIFY_EMAIL,
                                     tokens, nextTokenId)
          /\ nextTokenId' = nextTokenId + 1
          /\ IF mailOk
             THEN /\ issued' = issued \cup
                                 {SingleUse(gate.user, VerifyLife, tokenTypes.VERIFY_EMAIL)}
                  /\ res' = Respond([op |-> "sendVerificationEmail", status |-> 200,
                                     user |-> gate.user,
                                     message |-> "Verification email sent"])
             ELSE /\ issued' = issued
                  /\ res' = Respond([op |-> "sendVerificationEmail", status |-> 500,
                                     user |-> gate.user, message |-> "sendMail failed"])
          /\ UNCHANGED <<now, users, nextUserId, calls, rotated, stale>>

\* ------------------------------------------------------------ user service
UserIds == 1 .. MaxUsers

UserNotFound(op, userId) ==
  /\ UNCHANGED rest
  /\ /\ res' = Respond([op |-> op, status |-> 404, message |-> "User not found",
                        user |-> userId])
     /\ UNCHANGED users

\* userService.deactivateUser(userId)
deactivateUser(userId) ==
  /\ UNCHANGED rest
  /\ /\ IF findById(userId) = {}
        THEN UserNotFound("deactivateUser", userId)
        ELSE \E user \in findById(userId) :
             /\ users' = Replace(user, [user EXCEPT !.isActive = FALSE])
             /\ res' = Respond([op |-> "deactivateUser", status |-> 200, user |-> userId])
     /\ UNCHANGED <<now, nextUserId, tokens, nextTokenId, calls, issued, rotated,
                    stale>>

\* userService.activateUser(userId)
activateUser(userId) ==
  /\ UNCHANGED rest
  /\ /\ IF findById(userId) = {}
        THEN UserNotFound("activateUser", userId)
        ELSE \E user \in findById(userId) :
             /\ users' = Replace(user, [user EXCEPT !.isActive = TRUE])
             /\ res' = Respond([op |-> "activateUser", status |-> 200, user |-> userId])
     /\ UNCHANGED <<now, nextUserId, tokens, nextTokenId, calls, issued, rotated,
                    stale>>

\* userService.deleteUserById(userId)
deleteUserById(userId) ==
  /\ UNCHANGED rest
  /\ /\ IF findById(userId) = {}
        THEN UserNotFound("deleteUserById", userId)
        ELSE \E user \in findById(userId) :
             /\ users' = users \ {user}
             /\ res' = Respond([op |-> "deleteUserById", status |-> 200, user |-> userId])
     /\ UNCHANGED <<now, nextUserId, tokens, nextTokenId, calls, issued, rotated,
                    stale>>

\* ------------------------------------------------------------ user routes
\* config/roles: the rights of each role
allRoles ==
  [user |-> {"getProducts", "manageOwnProfile", "createOrder", "viewOwnOrders"},
   admin |-> {"getUsers", "manageUsers", "getProducts", "manageProducts",
              "getOrders", "manageOrders", "manageOwnProfile", "createOrder",
              "viewOwnOrders", "viewAnalytics", "manageSettings"},
   moderator |-> {"getUsers", "getProducts", "manageProducts", "getOrders",
                  "manageOwnProfile", "viewOwnOrders"}]

roleRights == allRoles

\* authorize(...requiredRights) for req.user = user and req.params.userId =
\* userId: Forbidden when the user's role lacks a right and the route's
\* :userId is not the user's own id.
authorize(requiredRights, user, userId) ==
  LET hasRequiredRights == requiredRights \subseteq roleRights[user.role] IN
  IF ~hasRequiredRights /\ userId # user.id
  THEN [status |-> 403,
        message |-> "You do not have permission to perform this action."]
  ELSE [status |-> 200, message |-> ""]

\* auth.verifyToken, then auth.authorize('manageUsers'): what the two pass on
manageUsers(token, userId) ==
  LET gate == auth_verifyToken(token) IN
  IF gate.status # 200
  THEN gate
  ELSE LET user == CHOOSE u \in findById(gate.user) : TRUE
           allowed == authorize({"manageUsers"}, user, userId)
       IN  IF allowed.status # 200
           THEN [status |-> 403, user |-> gate.user, message |-> allowed.message]
           ELSE gate

\* The response of a /users/:userId route that the two middlewares refuse.
Refused(op, gate) ==
  /\ res' = Respond([op |-> op, status |-> gate.status,
                     message |-> gate.message, by |-> gate.user])
  /\ UNCHANGED <<now, users, nextUserId, tokens, nextTokenId, calls, issued,
                 rotated, stale>>

\* Bodies of PATCH /users/:userId that userValidation.updateUser lets pass
\* (role, isActive and password are among its keys; at least one key).
UpdateBodies ==
  {[role |-> "admin"], [role |-> "user"], [isActive |-> FALSE],
   [password |-> "xyz67890"]}

\* userService.updateUserById: Object.assign(user, updateBody); user.save(),
\* whose pre-save hook hashes a new password and bumps passwordChangedAt.
updateUserById(userId, updateBody) ==
  /\ UNCHANGED rest
  /\ IF findById(userId) = {}
     THEN UserNotFound("updateUserById", userId)
     ELSE \E user \in findById(userId) :
          LET assigned == [key \in DOMAIN user |->
                             IF key \in DOMAIN updateBody
                             THEN updateBody[key] ELSE user[key]]
              saved == IF "password" \in DOMAIN updateBody
                       THEN SetPassword(assigned, updateBody.password)
                       ELSE assigned
          IN  /\ users' = Replace(user, saved)
              /\ res' = Respond([op |-> "updateUserById", status |-> 200,
                                 message |-> "User updated successfully",
                                 user |-> userId])
  /\ UNCHANGED <<now, nextUserId, tokens, nextTokenId, calls, issued, rotated,
                 stale>>

\* PATCH /users/:userId
patchUser(token, userId, updateBody) ==
  LET gate == manageUsers(token, userId) IN
  IF gate.status # 200
  THEN UNCHANGED rest /\ Refused("updateUserById", gate)
  ELSE updateUserById(userId, updateBody)

\* DELETE /users/:userId
deleteUser(token, userId) ==
  LET gate == manageUsers(token, userId) IN
  IF gate.status # 200
  THEN UNCHANGED rest /\ Refused("deleteUserById", gate)
  ELSE deleteUserById(userId)

\* POST /users/:userId/deactivate
postDeactivate(token, userId) ==
  LET gate == manageUsers(token, userId) IN
  IF gate.status # 200
  THEN UNCHANGED rest /\ Refused("deactivateUser", gate)
  ELSE deactivateUser(userId)

\* POST /users/:userId/activate
postActivate(token, userId) ==
  LET gate == manageUsers(token, userId) IN
  IF gate.status # 200
  THEN UNCHANGED rest /\ Refused("activateUser", gate)
  ELSE activateUser(userId)

\* -------------------------------------------------------- periodic sweeps
\* cleanupExpiredTokens: Token.deleteMany({ expires: { $lt: new Date() } })
cleanupExpiredTokens ==
  /\ UNCHANGED rest
  /\ /\ tokens' = {d \in tokens : ~(d.expires < now)}
     /\ UNCHANGED <<now, users, nextUserId, nextTokenId, calls, issued, rotated,
                    stale, res>>

\* A session sweep whose cutoff is the present moment.
cleanupInactiveSessions_anyAge ==
  /\ UNCHANGED rest
  /\ /\ tokens' = {d \in tokens : ~(d.type = "refresh" /\ d.createdAt < now)}
     /\ UNCHANGED <<now, users, nextUserId, nextTokenId, calls, issued, rotated,
                    stale, res>>

\* cleanupInactiveSessions: refresh documents created more than 30 days ago
cleanupInactiveSessions ==
  /\ UNCHANGED rest
  /\ /\ tokens' = {d \in tokens :
                     ~(d.type = "refresh" /\ d.createdAt < now - 30 * 86400)}
     /\ UNCHANGED <<now, users, nextUserId, nextTokenId, calls, issued, rotated,
                    stale, res>>

\* Token strings clients hold, by kind
RefreshStrings == {t \in issued : t.type = tokenTypes.REFRESH}
AccessStrings == {t \in issued : t.type = tokenTypes.ACCESS}

\* --------------------------------------------------------- specifications
\* The whole system: every request and every job, in any order.
Next ==
  \/ \E d \in TickSteps : Tick(d)
  \/ \E e \in RawEmails, p \in Plain, m \in BOOLEAN : register(e, p, m)
  \/ \E e \in RawEmails, p \in Plain : login(e, p)
  \/ \E t \in issued : logout(t)
  \/ \E s \in Slots, t \in issued : refreshAuth_verify(s, t)
  \/ \E s \in Slots : refreshAuth_delete(s)
  \/ \E s \in Slots : refreshAuth_generate(s)
  \/ \E t \in issued : getMe(t)
  \/ \E t \in issued, c \in Plain, p \in Plain : changePassword(t, c, p)
  \/ \E e \in RawEmails, m \in BOOLEAN : forgotPassword(e, m)
  \/ \E t \in issued, p \in Plain : resetPassword(t, p)
  \/ \E t \in issued, m \in BOOLEAN : verifyEmail(t, m)
  \/ \E t \in issued, m \in BOOLEAN : sendVerificationEmail(t, m)
  \/ \E u \in UserIds : deactivateUser(u)
  \/ \E u \in UserIds : activateUser(u)
  \/ \E u \in UserIds : deleteUserById(u)
  \/ cleanupExpiredTokens
  \/ cleanupInactiveSessions

Spec == Init /\ [][Next]_vars

\* The specifications below restrict Next to the requests of one area and to
\* the inputs that area distinguishes, so that TLC explores each exhaustively
\* within the bounds.

\* Sessions: issuing, rotating and ending refresh tokens, two users.
NextSession ==
  \/ \E d \in {1, RefreshLife} : Tick(d)
  \/ \E e \in RawEmails : register(e, "abc12345", TRUE)
  \/ \E e \in RawEmails, p \in Plain : login(e, p)
  \/ \E t \in issued : logout(t)
  \/ \E s \in Slots, t \in issued : refreshAuth_verify(s, t)
  \/ \E s \in Slots : refreshAuth_delete(s)
  \/ \E s \in Slots : refreshAuth_generate(s)
  \/ \E u \in UserIds : deleteUserById(u)
  \/ cleanupExpiredTokens
  \/ cleanupInactiveSessions

SpecSession == Init /\ [][NextSession]_vars

\* Password changes and resets against the sessions they end; one rotation
\* at a time.
NextPassword ==
  \/ \E d \in {1, AccessLife} : Tick(d)
  \/ register("A@x.com", "abc12345", TRUE)
  \/ \E p \in Plain : login("a@x.com", p)
  \/ \E t \in issued : refreshAuth_verify(1, t)
  \/ refreshAuth_delete(1)
  \/ refreshAuth_generate(1)
  \/ \E t \in issued, c \in Plain : changePassword(t, c, "xyz67890")
  \/ forgotPassword("a@x.com", TRUE)
  \/ \E t \in issued : resetPassword(t, "xyz67890")

SpecPassword == Init /\ [][NextPassword]_vars

\* The authorization gate against account changes: one account, sessions from
\* its registration and from logins with the changed password, and the user
\* service acting on the users that exist.
NextGate ==
  \/ \E d \in {1, AccessLife} : Tick(d)
  \/ register("A@x.com", "abc12345", TRUE)
  \/ login("a@x.com", "xyz67890")
  \/ \E t \in issued : getMe(t)
  \/ \E t \in issued, c \in Plain : changePassword(t, c, "xyz67890")
  \/ \E u \in {x.id : x \in users} : deactivateUser(u)
  \/ \E u \in {x.id : x \in users} : activateUser(u)
  \/ \E u \in {x.id : x \in users} : deleteUserById(u)

SpecGate == Init /\ [][NextGate]_vars

\* Registration and login, every email and password; neither reads a token
\* lifetime, so the clock moves by seconds.
NextLogin ==
  \/ Tick(1)
  \/ \E e \in RawEmails, p \in Plain : register(e, p, TRUE)
  \/ \E e \in RawEmails, p \in Plain : login(e, p)
  \/ \E u \in UserIds : deactivateUser(u)
  \/ \E u \in UserIds : activateUser(u)
  \/ \E u \in UserIds : deleteUserById(u)

SpecLogin == Init /\ [][NextLogin]_vars

\* Mail-driven flows: verification and password-reset links.
NextMail ==
  \/ \E d \in {1, AccessLife} : Tick(d)
  \/ \E e \in RawEmails, m \in BOOLEAN : register(e, "abc12345", m)
  \/ \E e \in RawEmails, m \in BOOLEAN : forgotPassword(e, m)
  \/ \E t \in issued, p \in Plain : resetPassword(t, p)
  \/ \E t \in issued, m \in BOOLEAN : verifyEmail(t, m)
  \/ \E t \in issued : sendVerificationEmail(t, TRUE)
  \/ \E u \in UserIds : deleteUserById(u)

SpecMail == Init /\ [][NextMail]_vars

\* Registration with its awaits apart: concurrent requests for one email.
NextRegister ==
  \/ Tick(1)
  \/ \E s \in Slots, e \in RawEmails, m \in BOOLEAN : register_check(s, e, "abc12345", m)
  \/ \E s \in Slots, env \in Envs : register_create(s, env)
  \/ \E u \in UserIds : deleteUserById(u)

SpecRegister == Init /\ [][NextRegister]_vars

\* The ledger of one account over its refresh tokens' whole lifetime: the
\* requests that remove refresh records and both sweeps; logout gets any token
\* a client holds or one never issued.
NextLedger ==
  \/ \E d \in {1, RefreshLife} : Tick(d)
  \/ register("a@x.com", "abc12345", TRUE)
  \/ login("a@x.com", "abc12345")
  \/ \E t \in issued \cup {NoToken} : logout(t)
  \/ \E t \in RefreshStrings : refreshAuth_verify(1, t)
  \/ refreshAuth_delete(1)
  \/ refreshAuth_generate(1)
  \/ \E t \in AccessStrings : changePassword(t, "abc12345", "xyz67890")
  \/ cleanupExpiredTokens
  \/ cleanupInactiveSessions

SpecLedger == Init /\ [][NextLedger]_vars

\* Rotation through its route, against expiry and the sweeps.
NextExpiry ==
  \/ \E d \in {1, RefreshLife} : Tick(d)
  \/ register("a@x.com", "abc12345", TRUE)
  \/ login("a@x.com", "abc12345")
  \/ \E b \in RefreshStrings \cup {NoToken}, c \in RefreshStrings \cup {NoToken} :
       refreshTokens(1, b, c)
  \/ refreshAuth_delete(1)
  \/ refreshAuth_generate(1)
  \/ cleanupExpiredTokens
  \/ cleanupInactiveSessions

SpecExpiry == Init /\ [][NextExpiry]_vars

\* Sessions of one account that are opened, rotated, logged out, and swept
\* once expired.
NextLogout ==
  \/ Tick(RefreshLife)
  \/ register("a@x.com", "abc12345", TRUE)
  \/ login("a@x.com", "abc12345")
  \/ \E t \in issued \cup {NoToken} : logout(t)
  \/ \E t \in RefreshStrings : refreshAuth_verify(1, t)
  \/ refreshAuth_delete(1)
  \/ refreshAuth_generate(1)
  \/ cleanupExpiredTokens

SpecLogout == Init /\ [][NextLogout]_vars

\* ------------------------------------------------------------ validation
\* The characters of the strings that requests carry in their bodies.
Spell ==
  ("" :> <<>>) @@
  ("Al" :> <<"A", "l">>) @@
  ("admin" :> <<"a", "d", "m", "i", "n">>) @@
  ("no-at" :> <<"n", "o", "-", "a", "t">>) @@
  ("a@x" :> <<"a", "@", "x">>) @@
  ("a@x.com" :> <<"a", "@", "x", ".", "c", "o", "m">>) @@
  ("abc123" :> <<"a", "b", "c", "1", "2", "3">>) @@
  ("password" :> <<"p", "a", "s", "s", "w", "o", "r", "d">>) @@
  ("12345678" :> <<"1", "2", "3", "4", "5", "6", "7", "8">>) @@
  ("abc12345" :> <<"a", "b", "c", "1", "2", "3", "4", "5">>)

\* /\d/
Digits == {"0", "1", "2", "3", "4", "5", "6", "7", "8", "9"}

\* /[a-zA-Z]/
Letters ==
  {"a", "b", "c", "d", "e", "f", "g", "h", "i", "j", "k", "l", "m", "n", "o",
   "p", "q", "r", "s", "t", "u", "v", "w", "x", "y", "z", "A", "B", "C", "D",
   "E", "F", "G", "H", "I", "J", "K", "L", "M", "N", "O", "P", "Q", "R", "S",
   "T", "U", "V", "W", "X", "Y", "Z"}

\* value.match(re): some character of value is in the class
match(value, class) == \E i \in 1..Len(Spell[value]) : Spell[value][i] \in class

\* the custom validator password: the message, or "" when the value passes
password(value) ==
  IF Len(Spell[value]) < 8
  THEN "password must be at least 8 characters"
  ELSE IF ~match(value, Digits) \/ ~match(value, Letters)
       THEN "password must contain at least 1 letter and 1 number"
       ELSE ""

\* Joi.string().email(): one "@" after a local part, and a domain of at least
\* two segments.
email(value) ==
  LET chars == Spell[value]
      ats == {i \in 1..Len(chars) : chars[i] = "@"}
  IN  IF /\ Cardinality(ats) = 1
         /\ \E at \in ats :
              /\ at > 1
              /\ \E dot \in (at + 2)..(Len(chars) - 1) : chars[dot] = "."
      THEN ""
      ELSE "email must be a valid email"

\* Joi.string().required(): the key is present and its value is not empty
required(key, value) ==
  IF value = "" THEN key \o " is required" ELSE ""

\* Joi.string().min(2).max(50)
minmax(value) ==
  IF Len(Spell[value]) < 2
  THEN "name length must be at least 2 characters long"
  ELSE IF Len(Spell[value]) > 50
       THEN "name length must be less than or equal to 50 characters long"
       ELSE ""

\* The first failing rule of a key's chain, or "".
first(messages) ==
  IF \A i \in 1..Len(messages) : messages[i] = ""
  THEN ""
  ELSE messages[CHOOSE i \in 1..Len(messages) :
                  /\ messages[i] # ""
                  /\ \A j \in 1..(i - 1) : messages[j] = ""]

\* Joi.object().keys({...}): a key that the schema does not name is refused.
unknown(key, value) ==
  IF value = "" THEN "" ELSE key \o " is not allowed"

\* Bodies that requests carry ("" for a key that is absent or empty).
Bodies ==
  [name : {"", "Al"},
   email : {"", "no-at", "a@x", "a@x.com"},
   password : {"", "abc123", "password", "12345678", "abc12345"},
   role : {"", "admin"}]

\* authValidation.register.body and authValidation.login.body: the messages
\* of the keys that fail, in the order of the keys (abortEarly: false).
authValidation ==
  [register |-> [body \in Bodies |->
       SelectSeq(<<first(<<required("name", body.name), minmax(body.name)>>),
                   first(<<required("email", body.email), email(body.email)>>),
                   first(<<required("password", body.password), password(body.password)>>),
                   unknown("role", body.role)>>,
                 LAMBDA message : message # "")],
   login |-> [body \in Bodies |->
       SelectSeq(<<first(<<required("email", body.email), email(body.email)>>),
                   required("password", body.password),
                   unknown("name", body.name),
                   unknown("role", body.role)>>,
                 LAMBDA message : message # "")]]

\* A validate that calls next() whatever the schema says.
validate_next(schema, body) == <<>>

\* validate(schema): the details of the Joi error, empty when the body passes
validate(schema, body) == schema[body]

\* details.map((detail) => detail.message).join(', ')
RECURSIVE join(_)
join(details) ==
  IF Len(details) = 1
  THEN details[1]
  ELSE details[1] \o ", " \o join(Tail(details))

\* next(new BadRequestError(errorMessage)) through the error middleware,
\* whose response has success: false
BadRequest(op, details) ==
  LET reply == handleError("production", ApiError(400, join(details), TRUE, "")) IN
  /\ res' = Respond([op |-> op, status |-> reply.status,
                     message |-> reply.message, success |-> FALSE])
  /\ UNCHANGED <<now, users, nextUserId, tokens, nextTokenId, calls, issued,
                 rotated, stale>>

\* POST /auth/register: validate(authValidation.register), then the controller
postRegister(body) ==
  /\ UNCHANGED rest
  /\ LET details == validate(authValidation.register, body) IN
     IF details # <<>>
     THEN BadRequest("register", details)
     ELSE register(body.email, body.password, TRUE)

\* POST /auth/login: validate(authValidation.login), then the controller
postLogin(body) ==
  /\ UNCHANGED rest
  /\ LET details == validate(authValidation.login, body) IN
     IF details # <<>>
     THEN BadRequest("login", details)
     ELSE login(body.email, body.password)

\* Sessions of one account that is deactivated and activated again.
NextActive ==
  \/ Tick(1)
  \/ register("a@x.com", "abc12345", TRUE)
  \/ login("a@x.com", "abc12345")
  \/ \E t \in RefreshStrings : refreshAuth_verify(1, t)
  \/ refreshAuth_delete(1)
  \/ refreshAuth_generate(1)
  \/ \E u \in {x.id : x \in users} : deactivateUser(u)
  \/ \E u \in {x.id : x \in users} : activateUser(u)

SpecActive == Init /\ [][NextActive]_vars

\* Two accounts and their requests to the /users/:userId routes.
NextUsers ==
  \/ \E e \in {"a@x.com", "b@x.com"} : register(e, "abc12345", TRUE)
  \/ \E t \in AccessStrings, u \in UserIds, b \in UpdateBodies : patchUser(t, u, b)
  \/ \E t \in AccessStrings, u \in UserIds : deleteUser(t, u)
  \/ \E t \in AccessStrings, u \in UserIds : postDeactivate(t, u)
  \/ \E t \in AccessStrings, u \in UserIds : postActivate(t, u)

SpecUsers == Init /\ [][NextUsers]_vars

\* Rotations of one account's sessions, against a store that can refuse the
\* write of the new record.
NextRotate ==
  \/ Tick(1)
  \/ register("a@x.com", "abc12345", TRUE)
  \/ login("a@x.com", "abc12345")
  \/ \E t \in issued : refreshAuth_verify(1, t)
  \/ refreshAuth_delete(1)
  \/ refreshAuth_generate(1)
  \/ refreshAuth_createFails(1)
  \/ \E u \in {x.id : x \in users} : deleteUserById(u)

SpecRotate == Init /\ [][NextRotate]_vars

\* Requests to a protected route with every header and cookie, while tokens
\* expire and the account's password changes.
NextProtect ==
  \/ \E d \in {1, AccessLife} : Tick(d)
  \/ register("a@x.com", "abc12345", TRUE)
  \/ \E h, c \in Carried : getMe_request([authorization |-> h, accessToken |-> c])
  \/ \E t \in AccessStrings : changePassword(t, "abc12345", "xyz67890")
  \/ \E u \in {x.id : x \in users} : deactivateUser(u)

SpecProtect == Init /\ [][NextProtect]_vars

\* Registrations and logins with bodies of every shape.
NextValidate ==
  \/ \E body \in Bodies : postRegister(body)
  \/ \E body \in Bodies : postLogin(body)

SpecValidate == Init /\ [][NextValidate]_vars

\* ------------------------------------------------------------- catalogue
MaxStock == 3

MaxSold == 2 * MaxStock

\* The quantities of the calls.
Quantities == 1 .. (MaxStock - 1)

\* the state the catalogue's calls leave alone
offShop == <<now, users, nextUserId, tokens, nextTokenId, calls, issued,
             rotated, stale, scheduled, runs, orders>>

\* updateStock(productId, q, 'add'), when no sale is in flight:
\* product.quantity += q; product.save()
updateStock_add(q) ==
  /\ \A s \in Slots : stockCalls[s].pc = "idle"
  /\ product.quantity + q <= MaxStock
  /\ product' = [product EXCEPT !.quantity = @ + q]
  /\ tally' = [tally EXCEPT !.added = @ + q]
  /\ res' = Respond([op |-> "updateStock", ok |-> TRUE])
  /\ UNCHANGED <<stockCalls, offShop>>

\* updateStock(productId, q, 'subtract') up to its await of product.save():
\* getProductById, the stock check, and the new quantity and soldCount set on
\* the document the call holds in memory.
updateStock_read(s, q) ==
  /\ stockCalls[s].pc = "idle"
  /\ tally.sold + q <= MaxSold
  /\ IF product.quantity < q
     THEN /\ res' = Respond([op |-> "updateStock", ok |-> FALSE,
                             message |-> "Insufficient stock"])
          /\ UNCHANGED stockCalls
     ELSE /\ stockCalls' = [stockCalls EXCEPT ![s] =
                              [pc |-> "save", q |-> q,
                               quantity |-> product.quantity - q,
                               soldCount |-> product.soldCount + q]]
          /\ UNCHANGED res
  /\ UNCHANGED <<product, tally, offShop>>

\* product.save() of the call in slot s: the document's modified paths,
\* quantity and soldCount, are written as the call computed them (the
\* schema's min: 0 passes, the call having checked the stock it read).
updateStock_save(s) ==
  /\ stockCalls[s].pc = "save"
  /\ product' = [quantity |-> stockCalls[s].quantity,
                 soldCount |-> stockCalls[s].soldCount]
  /\ tally' = [tally EXCEPT !.sold = @ + stockCalls[s].q]
  /\ stockCalls' = [stockCalls EXCEPT ![s] = IdleStock]
  /\ res' = Respond([op |-> "updateStock", ok |-> TRUE])
  /\ UNCHANGED offShop

\* Stock that arrives and sales that run side by side.
NextStock ==
  \/ \E q \in Quantities : updateStock_add(q)
  \/ \E s \in Slots, q \in Quantities : updateStock_read(s, q)
  \/ \E s \in Slots : updateStock_save(s)

SpecStock == Init /\ [][NextStock]_vars

\* ---------------------------------------------------------------- orders
MaxOrders == 2

MaxHistory == 2

\* the statuses, of orderSchema.status's enum, that the saves set
Saved == {"shipped", "cancelled"}

\* Stripe charge ids
Charges == {"ch_1"}

\* the state the orders' handlers leave alone
offOrders == <<auth, scheduled, runs, product, stockCalls, tally>>

\* Order.findById(id)
findOrder(id) == {o \in orders : o.id = id}

\* orderSchema.pre('save'): a status that isModified is pushed on the history
preSave(order, modified) ==
  IF modified
  THEN [order EXCEPT !.statusHistory = Append(@, order.status)]
  ELSE order

\* Order.findByIdAndUpdate(id, update): an update sent to the store, which
\* runs no save hook; nothing when no order has the id.
findByIdAndUpdate(id, update) ==
  {IF o.id = id
   THEN [key \in DOMAIN o |-> IF key \in DOMAIN update THEN update[key] ELSE o[key]]
   ELSE o : o \in orders}

\* A new order whose status the creating code sets, and its first save.
createOrder(status) ==
  /\ Cardinality(orders) < MaxOrders
  /\ orders' = orders \cup
       {preSave([id |-> Cardinality(orders) + 1, status |-> status,
                 statusHistory |-> <<>>, paymentStatus |-> "pending",
                 stripeChargeId |-> ""], TRUE)}
  /\ UNCHANGED offOrders

\* order.status = status; order.save(): isModified('status') when the value
\* differs from the stored one.
saveStatus(id, status) ==
  /\ \E order \in findOrder(id) :
       /\ Len(order.statusHistory) < MaxHistory
       /\ orders' = (orders \ {order}) \cup
            {preSave([order EXCEPT !.status = status], status # order.status)}
  /\ UNCHANGED offOrders

\* handlePaymentSuccess(paymentIntent), orderId being metadata.orderId
handlePaymentSuccess(orderId, latest_charge) ==
  /\ orders' = findByIdAndUpdate(orderId,
                  [paymentStatus |-> "succeeded", stripeChargeId |-> latest_charge,
                   status |-> "confirmed"])
  /\ UNCHANGED offOrders

\* handlePaymentFailure(paymentIntent)
handlePaymentFailure(orderId) ==
  /\ orders' = findByIdAndUpdate(orderId,
                  [paymentStatus |-> "failed", status |-> "pending"])
  /\ UNCHANGED offOrders

\* handleRefund(charge): Order.findOne by the charge id, then the update
handleRefund(charge, isPartialRefund) ==
  /\ IF \E o \in orders : o.stripeChargeId = charge
     THEN \E order \in {o \in orders : o.stripeChargeId = charge} :
          orders' = findByIdAndUpdate(order.id,
                      [paymentStatus |-> IF isPartialRefund
                                         THEN "partially_refunded" ELSE "refunded",
                       status |-> IF isPartialRefund
                                  THEN order.status ELSE "refunded"])
     ELSE UNCHANGED orders
  /\ UNCHANGED offOrders

\* handleCheckoutComplete(session)
handleCheckoutComplete(orderId) ==
  /\ orders' = findByIdAndUpdate(orderId,
                  [paymentStatus |-> "succeeded", status |-> "confirmed"])
  /\ UNCHANGED offOrders

\* Orders that are placed, moved on by saves, and paid, failed and refunded
\* by Stripe's webhooks.
NextOrders ==
  \/ createOrder("pending")
  \/ \E id \in 1..MaxOrders, status \in Saved : saveStatus(id, status)
  \/ \E id \in 1..MaxOrders, c \in Charges : handlePaymentSuccess(id, c)
  \/ \E id \in 1..MaxOrders : handlePaymentFailure(id)
  \/ \E c \in Charges, partial \in BOOLEAN : handleRefund(c, partial)
  \/ \E id \in 1..MaxOrders : handleCheckoutComplete(id)

SpecOrders == Init /\ [][NextOrders]_vars

\* ------------------------------------------------------------ deployment
\* ecosystem.config.js: app express-backend in cluster mode with instances
\* 'max' (one per CPU), and app express-backend-cron as one forked process.
MaxInstances == 2

Instances == 1..MaxInstances

CronRunner == 0

\* CRON_ENABLED: Joi.boolean().default(true); neither app of the ecosystem
\* file sets it, and no code reads CRON_ONLY.
cron_enabled == TRUE

Jobs == {"cleanupExpiredTokens", "cleanupInactiveSessions"}

\* initCronJobs in process p: cron.schedule(...) for every job, unless
\* config.cron.enabled is false.
initCronJobs(p) ==
  IF cron_enabled THEN scheduled \cup {p} ELSE scheduled

\* startServer in cluster instance p: connectDB, initCronJobs, app.listen.
startServer(p) ==
  /\ p \notin scheduled
  /\ scheduled' = initCronJobs(p)
  /\ UNCHANGED <<auth, runs, shop>>

\* startCronRunner in the express-backend-cron process: connectDB,
\* initCronJobs.
startCronRunner ==
  /\ CronRunner \notin scheduled
  /\ scheduled' = initCronJobs(CronRunner)
  /\ UNCHANGED <<auth, runs, shop>>

\* The job's schedule comes round again: a new schedule tick.
scheduleTick ==
  /\ runs # {}
  /\ runs' = {}
  /\ UNCHANGED <<auth, scheduled, shop>>

\* node-cron in process p starts job at the current schedule tick, and the
\* job runs its deleteMany on the ledger.
runJob(p, job) ==
  /\ p \in scheduled
  /\ <<p, job>> \notin runs
  /\ runs' = runs \cup {<<p, job>>}
  /\ tokens' = IF job = "cleanupExpiredTokens"
                 THEN {d \in tokens : ~(d.expires < now)}
                 ELSE {d \in tokens :
                        ~(d.type = "refresh" /\ d.createdAt < now - 30 * 86400)}
  /\ UNCHANGED <<now, users, nextUserId, nextTokenId, calls, issued, rotated,
                 stale, res, scheduled, shop>>

\* The PM2 deployment: the processes start, the schedules come round, and an
\* account holds tokens that expire.
NextDeploy ==
  \/ Tick(RefreshLife)
  \/ register("a@x.com", "abc12345", TRUE)
  \/ \E p \in Instances : startServer(p)
  \/ startCronRunner
  \/ scheduleTick
  \/ \E p \in Instances \cup {CronRunner}, job \in Jobs : runJob(p, job)

SpecDeploy == Init /\ [][NextDeploy]_vars

\* Failing requests, in every environment, as time passes.
NextError ==
  \/ Tick(1)
  \/ \E env \in Envs, err \in Errors : fail(env, err)

SpecError == Init /\ [][NextError]_vars

\* ------------------------------------------------------------ properties
\* C1: a refresh token that a refreshAuth call has already succeeded with is
\* rejected with 401 when it is presented again.
C1_ReplayRejected ==
  (res.op = "refreshAuth" /\ res.replay) => res.status = 401

\* C2: of the refreshAuth calls that run concurrently with the same refresh
\* token (each began before any of them had rotated it), at most one succeeds:
\* a call that ends after another call has rotated its token gets 401.
C2_AtMostOneWins ==
  (res.op = "refreshAuth" /\ res.dup /\ ~res.replay) => res.status = 401

\* C3: a refresh token string issued to a user before that user's
\* changePassword or resetPassword succeeded is rejected by every refreshAuth
\* call made after the change.
C3_StaleRefreshRejected ==
  (res.op = "refreshAuth" /\ res.old) => res.status = 401

\* C4: when logout succeeds with refresh token T, refreshAuth no longer accepts
\* T, and every other refresh token it accepted before it still accepts.
C4_LogoutEndsOnlyT ==
  [][\A t \in RefreshStrings :
       (res'.op = "logout" /\ res'.status = 200 /\ logout(t)) =>
         /\ ~(verifyToken(t, tokenTypes.REFRESH))'
         /\ \A o \in RefreshStrings \ {t} :
              verifyToken(o, tokenTypes.REFRESH) => (verifyToken(o, tokenTypes.REFRESH))'
    ]_vars

\* The conditions C5 names, on the stored user of token t.
UserMissing(t) == \A u \in users : u.id # t.sub
UserInactive(t) == \E u \in users : u.id = t.sub /\ ~u.isActive
PasswordNewer(t) ==
  \E u \in users : u.id = t.sub /\ u.passwordChangedAt # NoTime
                   /\ u.passwordChangedAt > t.iat

\* C5: in every state and for every token, the gate answers 401 and attaches
\* no user when the token's user is missing, is inactive or has a password
\* changed after the token was issued; when it lets the request through, the
\* user it attaches is the token's and none of the three holds.  A protected
\* handler (getMe) answers 200 only with a user attached.
C5_GateRejects ==
  /\ \A t \in issued :
       LET gate == auth_verifyToken(t) IN
       /\ (UserMissing(t) \/ UserInactive(t) \/ PasswordNewer(t))
             => (gate.status = 401 /\ gate.user = NoUser)
       /\ gate.status = 200
             => (gate.user = t.sub /\ ~UserMissing(t) /\ ~UserInactive(t)
                 /\ ~PasswordNewer(t))
       /\ gate.status \in {200, 401}
  /\ res.op = "getMe" => (res.status = 200 <=> res.user # NoUser)

C5_Witness ==
  /\ res.op = "getMe"
  /\ res.status = 401
  /\ res.message = "Your account has been deactivated."

C7_InactiveLoginFails ==
  [][\A e \in RawEmails, p \in Plain :
       (/\ res'.op = "login"
        /\ \E u \in findByEmail(e) : comparePassword(u, p) /\ ~u.isActive
        /\ login(e, p))
         => /\ res'.status = 401
            /\ res'.user = NoUser
            /\ users' = users
            /\ tokens' = tokens
            /\ issued' = issued
    ]_vars

C7_Witness ==
  /\ res.op = "login"
  /\ res.status = 401
  /\ res.message = "Your account has been deactivated"
  /\ \E u \in users : ~u.isActive /\ u.lastLogin = NoTime

ForgotPasswordMessage ==
  "If an account exists with this email, a password reset link has been sent."

\* C8: forgotPassword gives the caller the same response (200 and the same
\* message) whether or not the email belongs to a user.
C8_SameResponse ==
  res.op = "forgotPassword"
    => (res.status = 200 /\ res.message = ForgotPasswordMessage)

\* C9: register, forgotPassword and verifyEmail report success when the mail
\* they send fails to be delivered.
C9_MailFailureSwallowed ==
  [][/\ \A e \in RawEmails, p \in Plain :
          (register(e, p, FALSE) /\ ~isEmailTaken(e)) => res'.status = 201
     /\ \A e \in RawEmails :
          (forgotPassword(e, FALSE) /\ findByEmail(e) # {}) => res'.status = 200
     /\ \A t \in issued :
          (verifyEmail(t, FALSE) /\ verifyToken(t, tokenTypes.VERIFY_EMAIL)
             /\ findById(t.sub) # {}) => res'.status = 200
    ]_vars

\* C10: in the state a successful register(e, p) leaves, login with the same e
\* and p succeeds as the user just created; and no stored password is ever a
\* plaintext.
C10_RegisterThenLogin ==
  /\ [][\A e \in RawEmails, p \in Plain, m \in BOOLEAN :
          (res'.op = "register" /\ res'.status = 201 /\ register(e, p, m))
            => /\ (loginResult(e, p).status = 200)'
               /\ (loginResult(e, p).user)' = res'.user
       ]_vars
  /\ [](\A u \in users : u.password \notin Plain)

C10_Witness ==
  /\ res.op = "login"
  /\ res.status = 200
  /\ \E u \in users : u.id = res.user /\ u.lastLogin = now /\ ~u.isEmailVerified
                      /\ u.password \notin Plain

\* C11: a login that fails on the password (or the email) writes nothing: the
\* users and the ledger are as before, so every login answers afterwards what
\* it would have answered before; and in every state a login with the password
\* of an active user succeeds, whatever attempts came before.
C11_NoLockout ==
  /\ [][\A e \in RawEmails, p \in Plain :
          (/\ res'.op = "login"
           /\ res'.message = "Incorrect email or password"
           /\ login(e, p))
            => /\ users' = users
               /\ tokens' = tokens
               /\ \A e2 \in RawEmails, p2 \in Plain :
                    (loginResult(e2, p2))' = loginResult(e2, p2)
       ]_vars
  /\ [](\A e \in RawEmails, p \in Plain :
          (\E u \in findByEmail(e) : u.isActive /\ comparePassword(u, p))
            => loginResult(e, p).status = 200)

\* A login has just failed although every email has an active user, so it
\* failed on the password of a registered, active user.
C11_Witness ==
  /\ res.op = "login"
  /\ res.status = 401
  /\ res.message = "Incorrect email or password"
  /\ \A e \in RawEmails : \E u \in findByEmail(e) : u.isActive

\* C12: no two users share an email; a register request that does not create
\* its user answers 409 and leaves users and ledger as they were, also when
\* another register request for the same email ran between its awaits.
C12_RegisterConflict ==
  /\ [](\A u \in users, v \in users : u.email = v.email => u = v)
  /\ [][\A s \in Slots, env \in Envs :
          (res'.op = "register" /\ res'.status # 201 /\ register_create(s, env))
            => (res'.status = 409 /\ users' = users /\ tokens' = tokens)
       ]_vars
  /\ [][\A s \in Slots, e \in RawEmails, m \in BOOLEAN :
          (res'.op = "register" /\ isEmailTaken(e)
           /\ register_check(s, e, "abc12345", m))
            => (res'.status = 409 /\ users' = users /\ tokens' = tokens)
       ]_vars

\* C13: in every state, a login for an email no user has and a login for a
\* registered email with a password that does not match get the same failure,
\* 401 'Incorrect email or password'; the response of such a login carries
\* exactly that and no user.
C13_SameLoginFailure ==
  /\ [](\A e1 \in RawEmails, e2 \in RawEmails, p1 \in Plain, p2 \in Plain :
          (/\ findByEmail(e1) = {}
           /\ findByEmail(e2) # {}
           /\ \A u \in findByEmail(e2) : ~comparePassword(u, p2))
            => /\ loginResult(e1, p1) = loginResult(e2, p2)
               /\ loginResult(e1, p1).status = 401
               /\ loginResult(e1, p1).message = "Incorrect email or password")
  /\ [][\A e \in RawEmails, p \in Plain :
          (/\ res'.op = "login"
           /\ \A u \in findByEmail(e) : ~comparePassword(u, p)
           /\ login(e, p))
            => res' = Respond([op |-> "login", status |-> 401,
                               message |-> "Incorrect email or password"])
       ]_vars

\* A login has just failed on the email or the password while one email is
\* registered and another is not.
C13_Witness ==
  /\ res.op = "login"
  /\ res.status = 401
  /\ res.message = "Incorrect email or password"
  /\ \E e1 \in RawEmails, e2 \in RawEmails :
       findByEmail(e1) = {} /\ findByEmail(e2) # {}

\* C14: a successful resetPassword leaves no password-reset record and no
\* refresh record of its user in the ledger, and a password-reset token string
\* that was issued to the user before a successful reset (the one used
\* included) is answered 401 whenever resetPassword gets it afterwards.
C14_ResetTokensEnded ==
  /\ [][\A t \in issued, p \in Plain :
          (res'.op = "resetPassword" /\ res'.status = 200 /\ resetPassword(t, p))
            => \A d \in tokens' :
                 d.user = t.sub
                   => d.type \notin {tokenTypes.RESET_PASSWORD, tokenTypes.REFRESH}
       ]_vars
  /\ [][\A t \in issued, p \in Plain :
          (res'.op = "resetPassword" /\ t \in stale /\ resetPassword(t, p))
            => res'.status = 401
       ]_vars

\* C15: a user's email-verified flag is false until a verifyEmail request for
\* that user succeeds; a successful verifyEmail leaves the flag true and no
\* verify-email record of the user in the ledger; and a verify-email token
\* string that a verifyEmail request has succeeded with is answered 401
\* whenever verifyEmail gets it again.
C15_VerifyOnce ==
  /\ [][\A v \in users' :
          v.isEmailVerified
            => \/ \E u \in users : u.id = v.id /\ u.isEmailVerified
               \/ (res'.op = "verifyEmail" /\ res'.status = 200 /\ res'.user = v.id)
       ]_vars
  /\ [][\A t \in issued, m \in BOOLEAN :
          (res'.op = "verifyEmail" /\ res'.status = 200 /\ verifyEmail(t, m))
            => /\ \E v \in users' : v.id = t.sub /\ v.isEmailVerified
               /\ \A d \in tokens' :
                    d.user = t.sub => d.type # tokenTypes.VERIFY_EMAIL
       ]_vars
  /\ [][\A t \in issued, m \in BOOLEAN :
          (res'.op = "verifyEmail" /\ t \in stale /\ verifyEmail(t, m))
            => res'.status = 401
       ]_vars

\* C16: a refreshAuth request that presents a refresh token at or after the
\* token's expiry time is answered 401, starts no rotation and leaves the
\* ledger and the tokens handed out as they were, whether or not the ledger
\* still holds the token's record.
C16_ExpiredRefreshRejected ==
  [][\A s \in Slots, t \in issued :
       (now >= t.exp /\ refreshAuth_verify(s, t))
         => /\ res'.op = "refreshAuth"
            /\ res'.status = 401
            /\ calls' = calls
            /\ tokens' = tokens
            /\ issued' = issued
    ]_vars

\* A refreshAuth request has just been refused while every refresh token
\* handed out is expired, still has its record in the ledger and still has
\* its user.
C16_Witness ==
  /\ res.op = "refreshAuth"
  /\ res.status = 401
  /\ RefreshStrings # {}
  /\ \A t \in RefreshStrings :
       /\ now >= t.exp
       /\ verifyTokenDocs(t, tokenTypes.REFRESH) # {}
       /\ findById(t.sub) # {}

LogoutRecords(t) ==
  {d \in tokens : d.token = t /\ d.type = tokenTypes.REFRESH /\ ~d.blacklisted}

\* C18: a logout with a token value for which the ledger holds no non-revoked
\* refresh record (never issued, already rotated, already logged out, expired
\* and swept, or of another kind) answers 404 'Token not found' and leaves
\* the ledger and the users as they were.
C18_LogoutNotFound ==
  [][res'.op = "logout" =>
       \A t \in issued \cup {NoToken} :
         (LogoutRecords(t) = {} /\ logout(t))
           => /\ res'.status = 404
              /\ res'.message = "Token not found"
              /\ tokens' = tokens
              /\ users' = users
    ]_vars

\* A logout has just been answered 404 while the ledger holds records and a
\* token has been rotated.
C18_Witness ==
  /\ res.op = "logout"
  /\ res.status = 404
  /\ rotated # {}
  /\ tokens # {}

\* C19: whatever a refresh-tokens request with token t in the body and no
\* cookie does, a request with t in the cookie and no body field does too, and
\* the other way round; in particular a valid t only in the cookie starts a
\* rotation.
C19_CookieAsBody ==
  [][\A s \in Slots, t \in RefreshStrings :
       /\ refreshTokens(s, NoToken, t) <=> refreshTokens(s, t, NoToken)
       /\ (/\ refreshTokens(s, NoToken, t)
           /\ verifyToken(t, tokenTypes.REFRESH)
           /\ findById(t.sub) # {})
            => calls'[s].pc = "delete"
    ]_vars

\* C20: in production, the response to a request that failed with an error
\* that is not an ApiError has status 500 and the message 'Internal server
\* error', carries no stack and no error details, and the error's own stack
\* (which begins with its message) goes to the log at level error.
C20_ProductionHidesErrors ==
  [][\A err \in Errors :
       (res'.op = "error" /\ ~isApiError(err) /\ fail("production", err))
         => /\ res'.status = 500
            /\ res'.message = "Internal server error"
            /\ res'.stack = ""
            /\ ~res'.errors
            /\ res'.level = "error"
            /\ err.stack # "" => res'.loggedStack = err.stack
    ]_vars

\* A production server has just answered 500 'Internal server error' to a
\* request that failed with a driver error carrying its own message, and has
\* logged that error's stack.
C20_Witness ==
  /\ res.op = "error"
  /\ res.env = "production"
  /\ res.name = "MongoServerError"
  /\ res.status = 500
  /\ res.message = "Internal server error"
  /\ res.loggedStack = "Error: connect ECONNREFUSED at handler"

\* C21: at every schedule tick each job is started by at most one process
\* of the deployment: never by two cluster instances, nor by a cluster
\* instance and the cron runner.
C21_OneStartPerTick ==
  \A job \in Jobs : Cardinality({p \in Instances \cup {CronRunner} : <<p, job>> \in runs}) <= 1

\* What the schemas refuse, said of the body itself: a key of the route
\* absent or empty, a key the route does not take, an email without "@" or without a two-segment domain, and for register a
\* password of fewer than 8 characters or without a letter or without a digit.
RegisterBodyFails(body) ==
  \/ body.name = ""
  \/ body.email \in {"", "no-at", "a@x"}
  \/ body.password \in {"", "abc123", "password", "12345678"}
  \/ body.role # ""

LoginBodyFails(body) ==
  \/ body.email \in {"", "no-at", "a@x"}
  \/ body.password = ""
  \/ body.name # ""
  \/ body.role # ""

Presented(req) ==
  IF req.authorization # Absent THEN req.authorization ELSE req.accessToken

NoTokenCarried(req) == req.authorization = Absent /\ req.accessToken = Absent

BadSignature(req) ==
  Presented(req) # Absent /\ Presented(req).secret # JwtSecret

Expired(req) ==
  Presented(req) # Absent /\ Presented(req).token.exp <= now

\* C23: a request to a protected route that carries no token, or whose token
\* is not signed with the server's key, or whose token is expired, is answered
\* 401 with success false and the handler gets no user.
C23_Unauthenticated ==
  /\ \A h, c \in Carried :
       LET req == [authorization |-> h, accessToken |-> c] IN
       (NoTokenCarried(req) \/ BadSignature(req) \/ Expired(req))
         => LET gate == auth_verifyToken_request(req) IN
            gate.status = 401 /\ gate.user = NoUser
  /\ (res.op = "getMe" /\ "success" \in DOMAIN res)
       => /\ res.status \in {200, 401}
          /\ res.success <=> res.status = 200
          /\ res.status = 401 => res.user = NoUser

\* With an account registered and its tokens in the client's hands, a request
\* carrying a token signed with another key has just been answered 401.
C23_Witness ==
  /\ users # {}
  /\ issued # {}
  /\ res.op = "getMe"
  /\ res.status = 401
  /\ res.message = "Invalid token."

\* C24: in every state the ledger holds at most one record per token string.
C24_OneRecordPerString ==
  \A d1, d2 \in tokens : d1.token = d2.token => d1 = d2

\* C25: a token whose type is not access, signed with the server's key and
\* unexpired, presented as the Bearer token or as the accessToken cookie,
\* is answered 401 and no user is attached.
C25_AccessTokensOnly ==
  \A t \in issued, c \in Carried :
    (t.type # tokenTypes.ACCESS /\ now < t.exp)
      => /\ LET gate == auth_verifyToken_request(
                          [authorization |-> [token |-> t, secret |-> JwtSecret],
                           accessToken |-> c])
            IN gate.status = 401 /\ gate.user = NoUser
         /\ LET gate == auth_verifyToken_request(
                          [authorization |-> Absent,
                           accessToken |-> [token |-> t, secret |-> JwtSecret]])
            IN gate.status = 401 /\ gate.user = NoUser

\* C26: every login and every refreshAuth that answers with a new pair of
\* tokens answers a user whose active flag is true at that moment.
C26_NoPairForInactive ==
  [][(res'.op \in {"login", "refreshAuth"} /\ res'.status = 200
        /\ nextTokenId' # nextTokenId)
       => \E user \in users : user.id = res'.user /\ user.isActive
    ]_vars

\* The requester of a token lacks the manageUsers right.
LacksManageUsers(token) ==
  \E user \in users :
    user.id = token.sub /\ "manageUsers" \notin allRoles[user.role]

\* C27: every request to a /users/:userId route made with the access token
\* of a user whose role lacks manageUsers, the requester's own id included,
\* is refused with 403 and changes no user.
C27_ManageUsersOnly ==
  [][\A t \in AccessStrings, u \in UserIds :
       (LacksManageUsers(t) /\ auth_verifyToken(t).status = 200
          /\ (\/ \E b \in UpdateBodies : patchUser(t, u, b)
              \/ deleteUser(t, u)
              \/ postDeactivate(t, u)
              \/ postActivate(t, u)))
         => (res'.status = 403 /\ users' = users)
    ]_vars

C29_StockAccounted ==
  /\ product.quantity >= 0
  /\ (\A s \in Slots : stockCalls[s].pc = "idle")
       => /\ product.soldCount = tally.sold
          /\ product.quantity = tally.added - tally.sold

\* C30: for every order in every state, the last entry of statusHistory is
\* the order's status.
C30_HistoryFollowsStatus ==
  \A order \in orders :
    /\ Len(order.statusHistory) > 0
    /\ order.statusHistory[Len(order.statusHistory)] = order.status

====
